---- MODULE Spec2Model ----
(***************************************************************************)
(* Model of the naim-banana image editor: the daily generation quota kept  *)
(* in localStorage (src/utils/rateLimiter.ts) and the edit history with    *)
(* undo/redo kept in the App component's state (src/App.tsx).              *)
(***************************************************************************)
EXTENDS Integers, Sequences, FiniteSets, TLC

(***************************************************************************)
(* Program constants.                                                      *)
(***************************************************************************)
MAX_EDITS == 10
DAILY_IMAGE_GENERATION_LIMIT == 1
ONE_DAY_IN_MS == 24 * 60 * 60 * 1000

(***************************************************************************)
(* Bounds of the model.                                                    *)
(***************************************************************************)
\* the clock reads 0 or, for d in 1..MaxDays, d days or d days and 1 ms
MaxDays == 1
\* no consume is started on a stored count of MaxCount or more
MaxCount == 2
\* another tab consumes only while the stored count is below MaxOther
MaxOther == 1
\* an edit is requested only while the committed history would hold at most MaxHist states
MaxHist == 3
\* the number of tabs inside a consume at the same time
MaxTabs == 2

Times == {0} \cup {d * ONE_DAY_IN_MS + o : d \in 1..MaxDays, o \in 0..1}

(***************************************************************************)
(* JavaScript values as far as the quota code meets them: a number, NaN,   *)
(* undefined (a missing field), null and a string.                         *)
(***************************************************************************)
Num(n) == [k |-> "num", n |-> n]
Undefined == [k |-> "undefined", n |-> 0]
Null == [k |-> "null", n |-> 0]
NaN == [k |-> "NaN", n |-> 0]
Str == [k |-> "string", n |-> 0]

\* Date.now() - v
JsSub(t, v) ==
    CASE v.k = "num" -> Num(t - v.n)
      [] v.k = "null" -> Num(t)
      [] OTHER -> NaN

\* a > b for a number b (NaN compares false)
JsGt(a, b) == a.k = "num" /\ a.n > b

\* a < b for a number b (null converts to 0, NaN compares false)
JsLt(a, b) ==
    CASE a.k = "num" -> a.n < b
      [] a.k = "null" -> 0 < b
      [] OTHER -> FALSE

\* v + 1 (a string concatenates and stays a string)
JsAdd1(v) ==
    CASE v.k = "num" -> Num(v.n + 1)
      [] v.k = "null" -> Num(1)
      [] v.k = "string" -> Str
      [] OTHER -> NaN

\* the value JSON.parse reads back after JSON.stringify wrote v as a field
JsonField(v) == IF v.k = "NaN" THEN Null ELSE v

(***************************************************************************)
(* The localStorage item under RATE_LIMIT_KEY: absent, a string JSON.parse *)
(* rejects, or the parsed view of a stored object.                         *)
(***************************************************************************)
RateLimitData(c, r) == [count |-> c, lastReset |-> r]
Absent == [kind |-> "absent", count |-> Undefined, lastReset |-> Undefined]
Garbage == [kind |-> "garbage", count |-> Undefined, lastReset |-> Undefined]
Stored(d) == [kind |-> "json", count |-> JsonField(d.count), lastReset |-> JsonField(d.lastReset)]

\* which storage calls throw: getItem (line 16) and the setItem calls of
\* lines 23, 35 and 59
Fails == [get : BOOLEAN, set23 : BOOLEAN, set35 : BOOLEAN, set59 : BOOLEAN]
\* the calls a read can make
ReadFails == {f \in Fails : ~f.set59}
NoFail == [get |-> FALSE, set23 |-> FALSE, set35 |-> FALSE, set59 |-> FALSE]

\* lines 33-36: write and return the initial state; the setItem is outside the try
initialState(store, t, f) ==
    IF f.set35
    THEN [store |-> store, data |-> RateLimitData(Undefined, Undefined), threw |-> TRUE]
    ELSE [store |-> Stored(RateLimitData(Num(0), Num(t))),
          data |-> RateLimitData(Num(0), Num(t)), threw |-> FALSE]

\* isExpired with the operands of the subtraction exchanged
isExpired_swapped(t, data) ==
    data.lastReset.k = "num" /\ data.lastReset.n - t > ONE_DAY_IN_MS

\* the expiry test of line 20
isExpired(t, data) == JsGt(JsSub(t, data.lastReset), ONE_DAY_IN_MS)

\* getStoredData without the try/catch: a failed read or parse reaches the caller
getStoredData_noCatch(store, t, f) ==
    IF f.get \/ store.kind = "garbage"
    THEN [store |-> store, data |-> RateLimitData(Undefined, Undefined), threw |-> TRUE]
    ELSE IF store.kind = "absent"
    THEN initialState(store, t, f)
    ELSE LET data == RateLimitData(store.count, store.lastReset) IN
         IF isExpired(t, data) /\ ~f.set23
         THEN [store |-> Stored(RateLimitData(Num(0), Num(t))),
               data |-> RateLimitData(Num(0), Num(t)), threw |-> FALSE]
         ELSE [store |-> store, data |-> data, threw |-> FALSE]

getStoredData(store, t, f) ==
    IF f.get \/ store.kind = "absent" \/ store.kind = "garbage"
    THEN initialState(store, t, f)
    ELSE LET data == RateLimitData(store.count, store.lastReset) IN
         IF isExpired(t, data)
         THEN IF f.set23
              THEN initialState(store, t, f)
              ELSE [store |-> Stored(RateLimitData(Num(0), Num(t))),
                    data |-> RateLimitData(Num(0), Num(t)), threw |-> FALSE]
         ELSE [store |-> store, data |-> data, threw |-> FALSE]

getDailyGenerationCount(store, t, f) ==
    LET g == getStoredData(store, t, f) IN
    [store |-> g.store, ret |-> g.data.count, threw |-> g.threw]

\* incrementDailyGenerationCount building the new record without the spread of
\* currentData: the window start is taken anew
incrementDailyGenerationCount_noSpread(store, t, f) ==
    LET g == getStoredData(store, t, f) IN
    IF g.threw \/ f.set59
    THEN [store |-> g.store, ret |-> Undefined, threw |-> TRUE]
    ELSE [store |-> Stored(RateLimitData(JsAdd1(g.data.count), Num(t))),
          ret |-> JsAdd1(g.data.count), threw |-> FALSE]

incrementDailyGenerationCount(store, t, f) ==
    LET g == getStoredData(store, t, f) IN
    IF g.threw
    THEN [store |-> g.store, ret |-> Undefined, threw |-> TRUE]
    ELSE LET newCount == JsAdd1(g.data.count) IN
         IF f.set59
         THEN [store |-> g.store, ret |-> Undefined, threw |-> TRUE]
         ELSE [store |-> Stored(RateLimitData(newCount, g.data.lastReset)),
               ret |-> newCount, threw |-> FALSE]

(***************************************************************************)
(* State.  storage and now are shared by every tab; the next group is the  *)
(* React state of one App instance (one tab); last and run record the      *)
(* calls made directly on the rateLimiter module; race holds the tabs that *)
(* are inside incrementDailyGenerationCount at the same time.              *)
(***************************************************************************)
VARIABLES
    storage,         \* localStorage item under RATE_LIMIT_KEY
    now,             \* Date.now()
    mounted,         \* the App component is rendered
    history,         \* useState<string[]>([])
    historyIndex,    \* useState<number>(-1)
    prompt,          \* useState<string>('')
    isLoading,       \* useState<boolean>(false)
    error,           \* useState<string | null>(null)
    editCount,       \* useState<number>(0)
    generatedToday,  \* useState<number>(getDailyGenerationCount)
    pending,         \* the handler suspended at an await, with the values its closure captured
    last,            \* the last direct call of the quota module and what it did
    run,             \* consumes counted since a fresh record, within its window
    race             \* the tabs inside a consume, statement by statement

quotaVars == <<storage, now>>
appVars == <<mounted, history, historyIndex, prompt, isLoading, error, editCount,
             generatedToday, pending>>
callVars == <<last, run, race>>
vars == <<storage, now, mounted, history, historyIndex, prompt, isLoading, error,
          editCount, generatedToday, pending, last, run, race>>

NoPending == [kind |-> "none", history |-> <<>>, historyIndex |-> -1, canGenerate |-> FALSE]
NoCall == [op |-> "none", t |-> 0, f |-> NoFail, pre |-> Absent, post |-> Absent,
           ret |-> Undefined, threw |-> FALSE]
NoRun == [on |-> FALSE, start |-> 0, n |-> 0]
Tabs == 1..MaxTabs
IdleTab == [pc |-> "idle", data |-> RateLimitData(Num(0), Num(0)), t |-> 0, saw |-> "none"]
NoRace == [tabs |-> [i \in Tabs |-> IdleTab], origin |-> Absent, erased |-> FALSE]

Init ==
    /\ storage = Absent
    /\ now = 0
    /\ mounted = FALSE
    /\ history = <<>>
    /\ historyIndex = -1
    /\ prompt = ""
    /\ isLoading = FALSE
    /\ error = "null"
    /\ editCount = 0
    /\ generatedToday = Num(0)
    /\ pending = NoPending
    /\ last = NoCall
    /\ run = NoRun
    /\ race = NoRace

(***************************************************************************)
(* The environment: the wall clock, which advances and which the user or   *)
(* a time synchronisation can set back, and writers of the storage item    *)
(* outside this program.                                                   *)
(***************************************************************************)
Tick ==
    /\ \E t \in Times : t > now /\ now' = t
    /\ UNCHANGED <<storage, appVars, callVars>>

ClockSetBack ==
    /\ \E t \in Times : t < now /\ now' = t
    /\ UNCHANGED <<storage, appVars, callVars>>

ExtCounts == {Num(-1), Num(0), Num(1), Undefined, Str}
ExtResets == {Num(t) : t \in Times} \cup {Undefined}
ExtContents == {Absent, Garbage} \cup {Stored(RateLimitData(c, r)) : c \in ExtCounts, r \in ExtResets}

ExternalWrite ==
    /\ \E c \in ExtContents \ {storage} : storage' = c
    /\ last' = NoCall
    /\ run' = NoRun
    /\ UNCHANGED <<now, appVars, race>>

(***************************************************************************)
(* Direct calls of the exported functions of rateLimiter.ts.               *)
(***************************************************************************)
\* the record is the fresh one of this instant
IsFresh(store, t) == store = Stored(RateLimitData(Num(0), Num(t)))
\* the run's window has not been left
InWindow(r, t) == r.on /\ t - r.start <= ONE_DAY_IN_MS

CallGetDailyGenerationCount ==
    \E f \in Fails :
        LET r == getDailyGenerationCount(storage, now, f) IN
        /\ storage' = r.store
        /\ last' = [op |-> "read", t |-> now, f |-> f, pre |-> storage, post |-> r.store,
                    ret |-> r.ret, threw |-> r.threw]
        /\ run' = IF ~r.threw /\ IsFresh(r.store, now)
                  THEN [on |-> TRUE, start |-> now, n |-> 0]
                  ELSE IF InWindow(run, now) /\ ~f.get THEN run ELSE NoRun
        /\ UNCHANGED <<now, appVars, race>>

CallIncrementDailyGenerationCount ==
    /\ storage.kind = "json" /\ storage.count.k = "num" => storage.count.n < MaxCount
    /\ \E f \in Fails :
        LET r == incrementDailyGenerationCount(storage, now, f) IN
        /\ storage' = r.store
        /\ last' = [op |-> "consume", t |-> now, f |-> f, pre |-> storage, post |-> r.store,
                    ret |-> r.ret, threw |-> r.threw]
        /\ run' = IF InWindow(run, now) /\ ~f.get
                  THEN IF r.threw THEN run ELSE [run EXCEPT !.n = @ + 1]
                  ELSE NoRun
        /\ UNCHANGED <<now, appVars, race>>

NextQuota ==
    \/ Tick
    \/ ClockSetBack
    \/ ExternalWrite
    \/ CallGetDailyGenerationCount
    \/ CallIncrementDailyGenerationCount

SpecQuota == Init /\ [][NextQuota]_vars

(***************************************************************************)
(* The App component (src/App.tsx).  An image is an opaque token; a prompt *)
(* is empty or not.                                                        *)
(***************************************************************************)
Images == {"imgA", "imgB"}
Prompts == {"", "make the sky purple"}

\* line 29: history[historyIndex], undefined outside the array
hasCurrentImage == historyIndex >= 0 /\ historyIndex < Len(history)
currentImage == history[historyIndex + 1]
\* canUndo off by one: true at the first state too
canUndo_fromZero == historyIndex >= 0
canUndo == historyIndex > 0
canRedo == historyIndex < Len(history) - 1
\* canEdit off by one: an edit is still allowed at the maximum
canEdit_inclusive == editCount <= MAX_EDITS
canEdit == editCount < MAX_EDITS
\* canGenerate off by one: a generation is still allowed at the limit
canGenerate_inclusive == ~JsGt(generatedToday, DAILY_IMAGE_GENERATION_LIMIT)
canGenerate == JsLt(generatedToday, DAILY_IMAGE_GENERATION_LIMIT)

\* The page is loaded or reloaded: every useState initialiser runs, among them
\* getDailyGenerationCount; if that throws the render fails and nothing is mounted.
\* A handler suspended in the previous page is gone.
Load ==
    \E f \in ReadFails :
        LET r == getDailyGenerationCount(storage, now, f) IN
        /\ storage' = r.store
        /\ mounted' = ~r.threw
        /\ generatedToday' = IF r.threw THEN Num(0) ELSE r.ret
        /\ history' = <<>>
        /\ historyIndex' = -1
        /\ prompt' = ""
        /\ isLoading' = FALSE
        /\ error' = "null"
        /\ editCount' = 0
        /\ pending' = NoPending
        /\ UNCHANGED <<now, callVars>>

\* the textarea's onChange (enabled by line 184)
SetPrompt ==
    /\ mounted /\ hasCurrentImage /\ ~isLoading /\ canEdit
    /\ \E p \in Prompts \ {prompt} : prompt' = p
    /\ UNCHANGED <<storage, now, mounted, history, historyIndex, isLoading, error,
                   editCount, generatedToday, pending, callVars>>

\* handleImageUpload up to its await.  The file input is rendered only without
\* a current image and while not loading (line 256) and is disabled by
\* isLoading || !canGenerate (line 149).
UploadRequest ==
    /\ mounted /\ ~hasCurrentImage /\ ~isLoading
    /\ ~(isLoading \/ ~canGenerate)
    /\ IF ~canGenerate /\ Len(history) = 0
       THEN /\ error' = "limit"
            /\ UNCHANGED <<isLoading, pending>>
       ELSE /\ isLoading' = TRUE
            /\ error' = "null"
            /\ pending' = [kind |-> "upload", history |-> history,
                           historyIndex |-> historyIndex, canGenerate |-> canGenerate]
    /\ UNCHANGED <<storage, now, mounted, history, historyIndex, prompt, editCount,
                   generatedToday, callVars>>

\* handleImageUpload after fileToBase64 resolved: lines 60-68 and the finally
UploadResolved ==
    /\ pending.kind = "upload"
    /\ \E img \in Images, f \in Fails :
        LET r == incrementDailyGenerationCount(storage, now, f) IN
        /\ history' = <<img>>
        /\ historyIndex' = 0
        /\ editCount' = 0
        /\ IF Len(pending.history) = 0
           THEN /\ storage' = r.store
                /\ generatedToday' = IF r.threw THEN generatedToday ELSE r.ret
                /\ error' = IF r.threw THEN "loadFailed" ELSE error
           ELSE UNCHANGED <<storage, generatedToday, error>>
    /\ isLoading' = FALSE
    /\ pending' = NoPending
    /\ UNCHANGED <<now, mounted, prompt, callVars>>

\* UploadRejected without the finally: the busy flag is left set
UploadRejected_staysBusy ==
    /\ pending.kind = "upload"
    /\ error' = "loadFailed"
    /\ pending' = NoPending
    /\ UNCHANGED <<storage, now, mounted, history, historyIndex, prompt, isLoading,
                   editCount, generatedToday, callVars>>

\* handleImageUpload after fileToBase64 rejected: the catch and the finally
UploadRejected ==
    /\ pending.kind = "upload"
    /\ error' = "loadFailed"
    /\ isLoading' = FALSE
    /\ pending' = NoPending
    /\ UNCHANGED <<storage, now, mounted, history, historyIndex, prompt, editCount,
                   generatedToday, callVars>>

\* handleEditSubmit up to its await.  The button is disabled by
\* !prompt || !currentImage || isLoading || !canEdit (line 230).
EditRequest ==
    /\ mounted
    /\ ~(prompt = "" \/ ~hasCurrentImage \/ isLoading \/ ~canEdit)
    /\ historyIndex + 2 <= MaxHist
    /\ IF prompt = "" \/ ~hasCurrentImage \/ ~canEdit
       THEN /\ error' = IF ~canEdit THEN "maxEdits" ELSE error
            /\ UNCHANGED <<isLoading, pending>>
       ELSE /\ isLoading' = TRUE
            /\ error' = "null"
            /\ pending' = [kind |-> "edit", history |-> history,
                           historyIndex |-> historyIndex, canGenerate |-> canGenerate]
    /\ UNCHANGED <<storage, now, mounted, history, historyIndex, prompt, editCount,
                   generatedToday, callVars>>

\* newHistory without the slice: the new state is pushed onto the whole history
newHistory_noSlice(h, i, img) == Append(h, img)

\* lines 95-96: history.slice(0, historyIndex + 1) and the push
newHistory(h, i, img) == Append(SubSeq(h, 1, i + 1), img)

\* EditResolved without setEditCount: the edit is committed and not counted
EditResolved_uncounted ==
    /\ pending.kind = "edit"
    /\ \E img \in Images :
        /\ history' = newHistory(pending.history, pending.historyIndex, img)
        /\ historyIndex' = Len(newHistory(pending.history, pending.historyIndex, img)) - 1
    /\ prompt' = ""
    /\ isLoading' = FALSE
    /\ pending' = NoPending
    /\ UNCHANGED <<storage, now, mounted, error, editCount, generatedToday, callVars>>

\* handleEditSubmit after editImageWithGemini resolved: lines 93-101 and the finally
EditResolved ==
    /\ pending.kind = "edit"
    /\ \E img \in Images :
        /\ history' = newHistory(pending.history, pending.historyIndex, img)
        /\ historyIndex' = Len(newHistory(pending.history, pending.historyIndex, img)) - 1
    /\ editCount' = editCount + 1
    /\ prompt' = ""
    /\ isLoading' = FALSE
    /\ pending' = NoPending
    /\ UNCHANGED <<storage, now, mounted, error, generatedToday, callVars>>

\* EditRejected clearing the prompt as the success path does
EditRejected_clearsPrompt ==
    /\ pending.kind = "edit"
    /\ error' = "editFailed"
    /\ prompt' = ""
    /\ isLoading' = FALSE
    /\ pending' = NoPending
    /\ UNCHANGED <<storage, now, mounted, history, historyIndex, editCount,
                   generatedToday, callVars>>

\* handleEditSubmit after editImageWithGemini rejected: the catch and the finally
EditRejected ==
    /\ pending.kind = "edit"
    /\ error' = "editFailed"
    /\ isLoading' = FALSE
    /\ pending' = NoPending
    /\ UNCHANGED <<storage, now, mounted, history, historyIndex, prompt, editCount,
                   generatedToday, callVars>>

\* handleUndo taking an edit back from the edit count as well
handleUndo_uncounts ==
    /\ mounted /\ ~(~canUndo \/ isLoading)
    /\ historyIndex' = IF canUndo THEN historyIndex - 1 ELSE historyIndex
    /\ editCount' = editCount - 1
    /\ UNCHANGED <<storage, now, mounted, history, prompt, isLoading, error,
                   generatedToday, pending, callVars>>

\* handleUndo with a button that isLoading does not disable
handleUndo_whileLoading ==
    /\ mounted /\ canUndo
    /\ historyIndex' = IF canUndo THEN historyIndex - 1 ELSE historyIndex
    /\ UNCHANGED <<storage, now, mounted, history, prompt, isLoading, error, editCount,
                   generatedToday, pending, callVars>>

\* handleUndo; the button is disabled by !canUndo || isLoading (line 203)
handleUndo ==
    /\ mounted /\ ~(~canUndo \/ isLoading)
    /\ historyIndex' = IF canUndo THEN historyIndex - 1 ELSE historyIndex
    /\ UNCHANGED <<storage, now, mounted, history, prompt, isLoading, error, editCount,
                   generatedToday, pending, callVars>>

\* handleRedo jumping to the newest state
handleRedo_toLast ==
    /\ mounted /\ ~(~canRedo \/ isLoading)
    /\ historyIndex' = IF canRedo THEN Len(history) - 1 ELSE historyIndex
    /\ UNCHANGED <<storage, now, mounted, history, prompt, isLoading, error, editCount,
                   generatedToday, pending, callVars>>

\* handleRedo; the button is disabled by !canRedo || isLoading (line 212)
handleRedo ==
    /\ mounted /\ ~(~canRedo \/ isLoading)
    /\ historyIndex' = IF canRedo THEN historyIndex + 1 ELSE historyIndex
    /\ UNCHANGED <<storage, now, mounted, history, prompt, isLoading, error, editCount,
                   generatedToday, pending, callVars>>

\* another tab of the same origin records a generation of its own (its line 66)
OtherTabConsume ==
    /\ storage.kind = "json" /\ storage.count.k = "num" => storage.count.n < MaxOther
    /\ \E f \in Fails : storage' = incrementDailyGenerationCount(storage, now, f).store
    /\ storage' # storage
    /\ UNCHANGED <<now, appVars, callVars>>

Next ==
    \/ Tick
    \/ Load
    \/ SetPrompt
    \/ UploadRequest
    \/ UploadResolved
    \/ UploadRejected
    \/ EditRequest
    \/ EditResolved
    \/ EditRejected
    \/ handleUndo
    \/ handleRedo
    \/ OtherTabConsume

Spec == Init /\ [][Next]_vars

\* the awaited promise of a suspended handler settles: the handler resumes
Settle ==
    \/ UploadResolved
    \/ UploadRejected
    \/ EditResolved
    \/ EditRejected

\* the same session with no other tab on the storage
NextSingle ==
    \/ Tick
    \/ Load
    \/ SetPrompt
    \/ UploadRequest
    \/ UploadResolved
    \/ UploadRejected
    \/ EditRequest
    \/ EditResolved
    \/ EditRejected
    \/ handleUndo
    \/ handleRedo

SpecSingle == Init /\ [][NextSingle]_vars

\* that session under the proviso that every pending call settles
SpecLive == Init /\ [][NextSingle]_vars /\ WF_vars(Settle)

(***************************************************************************)
(* Several tabs inside incrementDailyGenerationCount at once.  A tab runs  *)
(* its synchronous code between two storage calls without interruption;    *)
(* the storage calls of different tabs interleave.  Storage calls return   *)
(* here and the stored record is absent or well-formed.                    *)
(***************************************************************************)
RaceStores ==
    {Absent} \cup {Stored(RateLimitData(Num(c), Num(r))) : c \in 0..MaxCount, r \in Times}

InitRace ==
    /\ storage \in RaceStores
    /\ now \in Times
    /\ mounted = FALSE
    /\ history = <<>>
    /\ historyIndex = -1
    /\ prompt = ""
    /\ isLoading = FALSE
    /\ error = "null"
    /\ editCount = 0
    /\ generatedToday = Num(0)
    /\ pending = NoPending
    /\ last = NoCall
    /\ run = NoRun
    /\ race = [tabs |-> [i \in Tabs |-> IdleTab], origin |-> storage, erased |-> FALSE]

\* a record of the running window that holds a consumption
HoldsConsumption(store, t) ==
    /\ store.kind = "json"
    /\ ~isExpired(t, RateLimitData(store.count, store.lastReset))
    /\ JsGt(store.count, 0)

\* TabGetItem building the reset record on the stored lastReset
TabGetItem_keepsStart(i) ==
    /\ race.tabs[i].pc = "idle"
    /\ race' = [race EXCEPT !.tabs[i] =
            IF storage.kind \in {"absent", "garbage"}
            THEN [pc |-> "init", data |-> RateLimitData(Num(0), Num(now)),
                  t |-> now, saw |-> "absent"]
            ELSE IF isExpired(now, RateLimitData(storage.count, storage.lastReset))
                 THEN [pc |-> "reset", data |-> RateLimitData(Num(0), storage.lastReset),
                       t |-> now, saw |-> "expired"]
                 ELSE [pc |-> "inc", data |-> RateLimitData(storage.count, storage.lastReset),
                       t |-> now, saw |-> "live"]]
    /\ UNCHANGED <<storage, now, appVars, last, run>>

\* getStoredData from getItem up to the next setItem: lines 16-22, 26 and 34
TabGetItem(i) ==
    /\ race.tabs[i].pc = "idle"
    /\ race' = [race EXCEPT !.tabs[i] =
            IF storage.kind \in {"absent", "garbage"}
            THEN [pc |-> "init", data |-> RateLimitData(Num(0), Num(now)),
                  t |-> now, saw |-> "absent"]
            ELSE IF isExpired(now, RateLimitData(storage.count, storage.lastReset))
                 THEN [pc |-> "reset", data |-> RateLimitData(Num(0), Num(now)),
                       t |-> now, saw |-> "expired"]
                 ELSE [pc |-> "inc", data |-> RateLimitData(storage.count, storage.lastReset),
                       t |-> now, saw |-> "live"]]
    /\ UNCHANGED <<storage, now, appVars, last, run>>

\* getStoredData's setItem of the reset record (line 23) or the fresh one (line 35)
TabSetItem(i) ==
    /\ race.tabs[i].pc \in {"reset", "init"}
    /\ storage' = Stored(race.tabs[i].data)
    /\ race' = [race EXCEPT !.tabs[i].pc = "inc",
                            !.erased = @ \/ HoldsConsumption(storage, now)]
    /\ UNCHANGED <<now, appVars, last, run>>

\* TabSetCount writing the count it read
TabSetCount_sameCount(i) ==
    /\ race.tabs[i].pc = "inc"
    /\ storage' = Stored(RateLimitData(race.tabs[i].data.count, race.tabs[i].data.lastReset))
    /\ race' = [race EXCEPT !.tabs[i].pc = "done"]
    /\ UNCHANGED <<now, appVars, last, run>>

\* incrementDailyGenerationCount after getStoredData returned: lines 54-60
TabSetCount(i) ==
    /\ race.tabs[i].pc = "inc"
    /\ storage' = Stored(RateLimitData(JsAdd1(race.tabs[i].data.count),
                                       race.tabs[i].data.lastReset))
    /\ race' = [race EXCEPT !.tabs[i].pc = "done"]
    /\ UNCHANGED <<now, appVars, last, run>>

NextRace ==
    \/ Tick
    \/ \E i \in Tabs : TabGetItem(i)
    \/ \E i \in Tabs : TabSetItem(i)
    \/ \E i \in Tabs : TabSetCount(i)

SpecRace == InitRace /\ [][NextRace]_vars

(***************************************************************************)
(* Properties of the quota module, checked under SpecQuota.                *)
(***************************************************************************)
\* a record of the persisted format: count an integer >= 0, lastReset a timestamp
ValidRecord(store) ==
    /\ store.kind = "json"
    /\ store.count.k = "num" /\ store.count.n >= 0
    /\ store.lastReset.k = "num"

\* canConsume of the specification: the count just read is below the limit
canConsume(store, t) ==
    JsLt(getDailyGenerationCount(store, t, NoFail).ret, DAILY_IMAGE_GENERATION_LIMIT)

\* C4: within one window, starting from a fresh record, the n-th consume returns n,
\* the persisted record is {count: n, windowStart: the fresh record's}, and
\* canConsume is false once n has reached the limit.
C4_ConsumeCountsInWindow ==
    run.on =>
        /\ storage = Stored(RateLimitData(Num(run.n), Num(run.start)))
        /\ (last.op = "consume" /\ ~last.threw) => last.ret = Num(run.n)
        /\ (run.n >= DAILY_IMAGE_GENERATION_LIMIT /\ InWindow(run, now))
               => ~canConsume(storage, now)

C4_Witness ==
    /\ run.on /\ run.n = 2 /\ now # run.start
    /\ last.op = "consume" /\ ~last.threw /\ last.ret = Num(2)

\* what a read at time t of a record does when it finds the window over:
\* it returns 0, persists {0, t}, and a second read at t changes nothing
ReadResets(c) ==
    /\ c.ret = Num(0)
    /\ c.post = Stored(RateLimitData(Num(0), Num(c.t)))
    /\ \A f \in Fails :
           LET again == getDailyGenerationCount(c.post, c.t, f) IN
           /\ again.store = c.post
           /\ ~again.threw => again.ret = Num(0)

\* C5 as stated: every read at now >= windowStart + windowDurationMs of a valid
\* record returns 0 and persists windowStart = now, idempotently.
C5_ResetFromBoundary ==
    (/\ last.op = "read" /\ ~last.threw
     /\ ValidRecord(last.pre)
     /\ last.t >= last.pre.lastReset.n + ONE_DAY_IN_MS)
        => ReadResets(last)

\* C5 amended: every read at now > windowStart + windowDurationMs of a valid record
\* returns 0 and persists windowStart = now; a second read at the same instant
\* returns 0 again and leaves the record unchanged.
C5_ResetAfterBoundary ==
    (/\ last.op = "read" /\ ~last.threw
     /\ ValidRecord(last.pre)
     /\ last.t > last.pre.lastReset.n + ONE_DAY_IN_MS)
        => ReadResets(last)

C5_Witness ==
    /\ last.op = "read" /\ ~last.threw
    /\ ValidRecord(last.pre) /\ last.pre.count.n >= 1
    /\ last.t = last.pre.lastReset.n + ONE_DAY_IN_MS + 1
    /\ last.ret = Num(0)

\* C6: a read that finds the key absent, the stored string unparsable, or the
\* storage read failing does the same in all three cases: it writes back and
\* returns the fresh record {0, now} and no error reaches the caller (the one
\* error left is that of the write-back itself, the same in the three cases).
C6_CorruptionRecovery ==
    (/\ last.op = "read"
     /\ last.pre.kind \in {"absent", "garbage"} \/ last.f.get)
        => IF last.f.set35
           THEN last.threw /\ last.post = last.pre
           ELSE /\ ~last.threw
                /\ last.ret = Num(0)
                /\ last.post = Stored(RateLimitData(Num(0), Num(last.t)))

C6_Witness ==
    /\ last.op = "read" /\ last.pre.kind = "garbage" /\ ~last.f.get
    /\ ~last.threw /\ last.ret = Num(0) /\ last.t > 0

\* C7: stored content that parses but is malformed is treated as an expired
\* window (fresh {0, now} returned and written back), so every count a read
\* returns is a non-negative integer.
C7_MalformedTreatedAsExpired ==
    (last.op = "read" /\ ~last.threw) =>
        /\ last.ret.k = "num" /\ last.ret.n >= 0
        /\ (last.pre.kind = "json" /\ ~ValidRecord(last.pre)) =>
               /\ last.ret = Num(0)
               /\ last.post = Stored(RateLimitData(Num(0), Num(last.t)))

(***************************************************************************)
(* Properties of the App component, checked under Spec.                    *)
(***************************************************************************)
\* the step in which a pending edit settles with a result and is committed
CommitStep ==
    /\ pending.kind = "edit" /\ pending'.kind = "none"
    /\ history' # <<>> /\ error' = "null"
\* the step in which an upload resets the history to the new image
ResetStep == history = <<>> /\ history' # <<>>
\* an undo or a redo step
CursorStep == pending.kind = "none" /\ history' = history /\ historyIndex' # historyIndex

\* C1: the cursor stays within [-1, length-1]; it is -1 exactly when the history
\* is empty and 0 <= cursor < length whenever the history is non-empty.
C1_CursorInBounds ==
    /\ -1 <= historyIndex /\ historyIndex <= Len(history) - 1
    /\ historyIndex = -1 <=> history = <<>>
    /\ history # <<>> => (0 <= historyIndex /\ historyIndex < Len(history))

C1_Witness ==
    /\ Len(history) = 3 /\ historyIndex = 1 /\ editCount = 4 /\ ~isLoading

\* C2: a commit at cursor c drops every state with index > c, appends the new
\* state and puts the cursor on it, so that redo is unavailable; the history
\* changes in no other way than by a commit, an upload or a reload, so no later
\* undo or redo brings a dropped state back.
C2_CommitTruncates ==
    [][/\ CommitStep =>
            /\ Len(history') = historyIndex + 2
            /\ SubSeq(history', 1, historyIndex + 1) = SubSeq(history, 1, historyIndex + 1)
            /\ historyIndex' = Len(history') - 1
            /\ ~canRedo'
       /\ history' # history => (CommitStep \/ ResetStep \/ history' = <<>>)
      ]_vars

C2_Witness ==
    /\ history = <<"imgA", "imgA", "imgB">> /\ historyIndex = 2 /\ editCount = 3
    /\ ~isLoading /\ ~canRedo /\ prompt = ""

\* C3 as stated: the edit count equals the cursor in every state that has an image.
C3_EditCountIsCursor ==
    history # <<>> => editCount = historyIndex

\* C3 amended: the cursor never exceeds the edit count; the edit count is 0 right
\* after a reset, increases by one on each commit, and undo and redo leave it
\* unchanged.
C3_EditCountCountsCommits ==
    /\ [](history # <<>> => historyIndex <= editCount)
    /\ [][/\ ResetStep => editCount' = 0
          /\ CommitStep => editCount' = editCount + 1
          /\ CursorStep => editCount' = editCount
         ]_vars

\* after reset, commit, commit, undo
C3_Witness ==
    /\ Len(history) = 3 /\ historyIndex = 1 /\ editCount = 2 /\ ~isLoading

\* C8: whether a generation may proceed is decided from the persisted record
\* re-validated at the time of the request: once the window has rolled over, a
\* request in the running session is permitted again.
C8_PermittedAfterRollover ==
    (mounted /\ ~isLoading /\ ~hasCurrentImage /\ canConsume(storage, now))
        => canGenerate

\* C9: no generation proceeds unless the persisted record's count is below the
\* limit at the time of the request, also when another tab has consumed quota
\* since this session was loaded.
C9_NoGenerationOverLimit ==
    [][(pending.kind = "none" /\ pending'.kind = "upload") => canConsume(storage, now)]_vars

\* C10: the history holds the new base image only once its consumption has been
\* recorded, also when the storage write of consume fails.
C10_ConsumeBeforeReset ==
    [][ResetStep =>
          /\ storage'.kind = "json" /\ storage'.count.k = "num" /\ storage'.count.n >= 1
          /\ generatedToday' = storage'.count]_vars

\* the step in which a pending edit settles with a failure
RejectStep ==
    /\ pending.kind = "edit" /\ pending'.kind = "none"
    /\ error' = "editFailed"

\* C11: an edit request is accepted (the collaborator is called) only with a
\* current image and an edit count below MAX_EDITS; with the edit count at
\* MAX_EDITS or without an image no call starts and nothing is committed.
C11_EditOnlyBelowLimit ==
    /\ [](pending.kind = "edit" => (editCount < MAX_EDITS /\ hasCurrentImage))
    /\ [](editCount <= MAX_EDITS)
    /\ [][(editCount >= MAX_EDITS \/ ~hasCurrentImage) =>
              /\ pending'.kind # "edit"
              /\ ~CommitStep
              /\ editCount' \in {editCount, 0}
         ]_vars

\* ten edits made: the button and the textarea are disabled
C11_Witness ==
    /\ mounted /\ ~isLoading /\ hasCurrentImage
    /\ editCount = MAX_EDITS /\ ~canEdit /\ prompt = ""

\* C12: when the edit call fails nothing is committed: history, cursor and edit
\* count are the ones of the request, the persisted record is not written, no
\* second call is started, and the prompt is still there for a manual retry.
C12_FailedEditCommitsNothing ==
    [][/\ RejectStep =>
            /\ history' = pending.history /\ historyIndex' = pending.historyIndex
            /\ history' = history /\ historyIndex' = historyIndex
            /\ editCount' = editCount
            /\ storage' = storage
            /\ prompt' = prompt /\ prompt' # ""
            /\ ~isLoading'
       /\ (pending.kind = "edit" /\ pending'.kind = "edit") =>
            UNCHANGED <<history, historyIndex, editCount, prompt, pending>>
      ]_vars

C12_Witness ==
    /\ error = "editFailed" /\ ~isLoading /\ pending.kind = "none"
    /\ prompt # "" /\ Len(history) = 2 /\ historyIndex = 1 /\ editCount = 1

\* C14: undo and redo move the cursor by one inside the history and change
\* neither the states nor the error; no undo happens at cursor <= 0 and no redo
\* at cursor >= length-1; an upload leaves the single new state at cursor 0
\* with neither undo nor redo available.
C14_CursorMovesOnly ==
    [][/\ CursorStep =>
            /\ \/ (historyIndex' = historyIndex - 1 /\ historyIndex > 0)
               \/ (historyIndex' = historyIndex + 1 /\ historyIndex < Len(history) - 1)
            /\ error' = error
            /\ UNCHANGED <<editCount, prompt, isLoading, storage, generatedToday>>
       /\ ResetStep =>
            /\ Len(history') = 1 /\ historyIndex' = 0
            /\ ~canUndo' /\ ~canRedo'
      ]_vars

\* two commits, a failed edit, then two undos: the error is still shown
C14_Witness ==
    /\ Len(history) = 3 /\ historyIndex = 0 /\ error = "editFailed"
    /\ ~isLoading /\ canRedo /\ ~canUndo

\* C15: while a call is pending the session is busy and its history and cursor
\* are the ones the call started from, so a commit truncates that history.
C15_PendingFreezesHistory ==
    /\ [](pending.kind # "none" =>
              /\ isLoading
              /\ history = pending.history /\ historyIndex = pending.historyIndex)
    /\ [][pending.kind # "none" =>
              \/ UNCHANGED <<history, historyIndex, editCount, pending, isLoading>>
              \/ pending'.kind = "none"
         ]_vars

\* an edit is pending in a state where undo and redo would both apply
C15_Witness ==
    /\ pending.kind = "edit" /\ isLoading /\ canUndo /\ canRedo

\* C19: cursor <= editCount <= MAX_EDITS and length(history) <= editCount + 1;
\* within a session the edit count never decreases and undo and redo leave it
\* unchanged.
C19_HistoryBoundedByEdits ==
    /\ [](/\ historyIndex <= editCount /\ editCount <= MAX_EDITS
          /\ Len(history) <= editCount + 1
          /\ Len(history) <= MAX_EDITS + 1)
    /\ [][/\ history' # <<>> => editCount' >= editCount
          /\ CursorStep => editCount' = editCount
          /\ editCount' < editCount => (editCount' = 0 /\ history' = <<>>)
         ]_vars

C19_Witness ==
    /\ editCount = MAX_EDITS /\ Len(history) = 3 /\ historyIndex = 0

\* the storage writes a recorded quota call attempted, by source line
Attempted23(c) ==
    /\ ~c.f.get /\ c.pre.kind = "json"
    /\ isExpired(c.t, RateLimitData(c.pre.count, c.pre.lastReset))
Attempted35(c) ==
    \/ c.f.get \/ c.pre.kind \in {"absent", "garbage"}
    \/ (Attempted23(c) /\ c.f.set23)
Attempted59(c) ==
    /\ c.op = "consume"
    /\ ~(Attempted35(c) /\ c.f.set35)
AWriteFailed(c) ==
    \/ (Attempted23(c) /\ c.f.set23)
    \/ (Attempted35(c) /\ c.f.set35)
    \/ (Attempted59(c) /\ c.f.set59)

\* C13: every failed storage write of a quota call (the write-back of a reset
\* or fresh record, the write of the incremented count) makes the call throw,
\* and a call that returns has persisted the count it returns (stated for a
\* stored record that is absent, unparseable or well-formed).
C13_WriteFailuresSurface ==
    (last.op # "none" /\ (last.pre.kind = "json" => ValidRecord(last.pre))) =>
        /\ AWriteFailed(last) => last.threw
        /\ ~last.threw => (last.post.kind = "json" /\ last.post.count = last.ret)

\* C18: after a quota read or consume returns, the persisted record has
\* now - lastReset <= ONE_DAY_IN_MS for the time of the call, a lastReset
\* later than now included.
C18_RecordInWindowAfterAccess ==
    (last.op # "none" /\ ~last.threw) =>
        /\ last.post.kind = "json"
        /\ last.post.lastReset.k = "num"
        /\ last.t - last.post.lastReset.n <= ONE_DAY_IN_MS

AllDone == \A i \in Tabs : race.tabs[i].pc = "done"
AllSaw(what) == \A i \in Tabs : race.tabs[i].saw = what

\* C16: the tabs consumed once each inside the window of the record they
\* started from: whatever the interleaving of their reads and writes, the
\* final count is at least start + 1 and at most start + number of tabs.
C16_RaceCountBounds ==
    (AllDone /\ AllSaw("live")) =>
        /\ storage.kind = "json"
        /\ storage.lastReset = race.origin.lastReset
        /\ storage.count.k = "num"
        /\ storage.count.n >= race.origin.count.n + 1
        /\ storage.count.n <= race.origin.count.n + MaxTabs

\* every tab but one lost its update
C16_Witness ==
    /\ AllDone /\ AllSaw("live")
    /\ storage.count.n = race.origin.count.n + 1

\* C17 as stated: a reset write of a tab never replaces a record of the
\* running window that already holds a consumption.
C17_ResetNeverErases ==
    [][\A i \in Tabs :
          (race.tabs[i].pc = "reset" /\ race'.tabs[i].pc = "inc")
              => ~HoldsConsumption(storage, now)
      ]_vars

\* C17: the tabs all saw the expired record and consumed once each: in every
\* interleaving the final record starts at the instant one of the tabs read
\* and holds the count 1.
C17_RaceAcrossBoundary ==
    (AllDone /\ AllSaw("expired")) =>
        /\ storage.kind = "json"
        /\ storage.count = Num(1)
        /\ \E i \in Tabs : storage.lastReset = Num(race.tabs[i].t)

\* a reset write has replaced a recorded consumption of the new window
C17_Witness ==
    /\ AllDone /\ AllSaw("expired") /\ race.erased
    /\ storage.count = Num(1)

\* C20: with this tab alone on the storage the persisted count never exceeds
\* DAILY_IMAGE_GENERATION_LIMIT, and generatedToday of the mounted session is
\* the persisted count, after every upload and every reload included.
C20_SingleTabWithinLimit ==
    /\ storage.kind = "json" =>
           (storage.count.k = "num" /\ storage.count.n <= DAILY_IMAGE_GENERATION_LIMIT)
    /\ mounted => (storage.kind = "json" /\ generatedToday = storage.count)

\* the generation of a later window, counted and shown after the upload
C20_Witness ==
    /\ mounted /\ ~isLoading /\ history # <<>>
    /\ storage.kind = "json" /\ storage.lastReset.n > 0
    /\ storage.count = Num(DAILY_IMAGE_GENERATION_LIMIT)
    /\ generatedToday = Num(DAILY_IMAGE_GENERATION_LIMIT)

\* C21: an accepted edit or upload request sets isLoading, isLoading is set
\* only while a call is pending, and, every pending call settling, a set
\* isLoading is eventually cleared, whether the call resolved or rejected.
C21_BusyEventuallyCleared ==
    /\ [][(pending.kind = "none" /\ pending'.kind # "none") => isLoading']_vars
    /\ [](isLoading => pending.kind # "none")
    /\ (isLoading ~> ~isLoading)

\* the flag cleared after an upload that failed
C21_Witness ==
    /\ mounted /\ ~isLoading /\ pending.kind = "none"
    /\ error = "loadFailed" /\ history = <<>>

====
